---- MODULE Spec2Model ----
(***************************************************************************)
(* Model of sktime/utils/_testing/_conditional_fixtures.py:                *)
(* create_conditional_fixtures_and_names, its nested helpers get_fixtures, *)
(* one_fixture_prod, make_fixture_prod, make_fixture_name, and the module  *)
(* helpers _check_list_of_str and _remove_single.                          *)
(* Further sections model convert_Series_to_Panel and                      *)
(* convert_Panel_to_Series of sktime/datatypes/_series_as_panel/_convert.py *)
(* and set_classifier of sktime/contrib/set_classifier.py.                 *)
(*                                                                         *)
(* Python strings are modelled as sequences of non-empty chunks, so that   *)
(* concatenation and str.join are sequence concatenation and the empty     *)
(* string is << >>.  Python objects are modelled as records of one shape,  *)
(* [kind, n, var]: an int n, a FixtureGenerationError with fixture_name    *)
(* var, or a reference n into the heap of mutable objects.                 *)
(***************************************************************************)
EXTENDS Integers, Sequences, FiniteSets, TLC

VARIABLES
    pc,               \* "init", "returned", "typeerror"
    test_name,        \* argument test_name
    fixture_vars,     \* argument fixture_vars, as passed by the caller
    generator_dict,   \* argument generator_dict: the set of its keys
    fixture_sequence, \* argument fixture_sequence, as passed by the caller
    order,            \* local fixture_vars after filtering and re-ordering
    fixture_param_str,\* first return value
    src,              \* what is left of the list [((), [])] under the innermost generator
    frames,           \* the suspended one_fixture_prod generators, innermost first
    buf1, buf2,       \* itertools.tee: items pending for each of the two iterators
    out_values,       \* what the consumer has drawn from fixture_prod so far
    out_names,        \* what the consumer has drawn from fixture_names so far
    done1, done2,     \* the consumer has seen StopIteration on fixture_prod / fixture_names
    raised,           \* exceptions that reached the consumer, in order
    calls,            \* log of the invocations of generator_dict[...] callables
    heap,             \* mutable objects reachable from fixtures: id -> [atomic, val]
    nmut,             \* number of in-place mutations the consumer has made
    conv,             \* a Series to Panel to Series conversion: [pc, obj, panel, back]
    clf               \* a set_classifier call: [pc, cls, resample_id, train_file, ret]

vars == <<pc, test_name, fixture_vars, generator_dict, fixture_sequence, order,
          fixture_param_str, src, frames, buf1, buf2, out_values, out_names,
          done1, done2, raised, calls, heap, nmut, conv, clf>>

(***************************************************************************)
(* Bounds of the model.                                                    *)
(***************************************************************************)
MaxVars == 2       \* longest fixture_vars of the argument scenarios
MaxSeq == 3        \* longest fixture_sequence of the argument scenarios
MaxUnreg == 1      \* most names of the registry that generator_dict leaves out
MaxDeepVars == 3   \* longest fixture_vars of the expansion scenarios
MaxAliasVars == 3  \* longest fixture_vars of the aliasing scenarios
MaxMutations == 1  \* most in-place changes the consumer makes to emitted fixtures

(***************************************************************************)
(* Generic helpers.                                                        *)
(***************************************************************************)
Min(a, b) == IF a < b THEN a ELSE b

Range(s) == {s[i] : i \in 1..Len(s)}

\* the sequences over S of length n in which no element repeats
DistinctSeqs(S, n) == {s \in [1..n -> S] : \A i, j \in 1..n : i # j => s[i] # s[j]}

\* the sequences over S of length at most n in which no element repeats
SeqsUpTo(S, n) == UNION {DistinctSeqs(S, k) : k \in 0..n}

RECURSIVE Flatten(_)
Flatten(ss) == IF ss = << >> THEN << >> ELSE Head(ss) \o Flatten(Tail(ss))

RECURSIVE SelectSeq2(_, _)
\* the elements of s that are in the set S, in order
SelectSeq2(s, S) ==
    IF s = << >> THEN << >>
    ELSE (IF Head(s) \in S THEN <<Head(s)>> ELSE << >>) \o SelectSeq2(Tail(s), S)

(***************************************************************************)
(* Python values.                                                          *)
(***************************************************************************)
IntVal(n) == [kind |-> "int", n |-> n, var |-> ""]
ObjRef(k) == [kind |-> "obj", n |-> k, var |-> ""]

\* FixtureGenerationError(fixture_name): the attribute fixture_name
FixtureGenerationError(fixture_name) == [kind |-> "err", n |-> 0, var |-> fixture_name]

\* a Python str made of one literal
Str(lit) == IF lit = "" THEN << >> ELSE <<lit>>

\* str(x) of a fixture value, as get_fixtures applies it to list candidates
str(x, h) ==
    CASE x.kind = "int" -> Str(ToString(x.n))
      [] x.kind = "err" -> <<"fixture ", x.var, " failed to generate">>
      [] OTHER -> <<(IF h[x.n].atomic THEN "<class " ELSE "["), ToString(h[x.n].val), "]">>

RECURSIVE join(_, _)
\* sep.join(parts) for a list of str
join(sep, parts) ==
    IF parts = << >> THEN << >>
    ELSE IF Len(parts) = 1 THEN parts[1]
    ELSE parts[1] \o Str(sep) \o join(sep, Tail(parts))

(***************************************************************************)
(* The caller's arguments.  A list argument is [kind |-> "list", items];   *)
(* "tuple" stands for any object that is not a list, "none" for None.      *)
(* List elements are names, or NonStr, an element that is not a str.       *)
(***************************************************************************)
TestNames == {"t1", "t2"}

\* variable names of the argument, expansion and aliasing scenarios
ArgNames == {"number", "multiples", "named"}
MainNames == {"number", "multiples", "named", "flaky"}
AliasNames == {"boxes", "klass", "mutator"}

NonStr == "<int 1>"

List(items) == [kind |-> "list", items |-> items]
NotAList == [kind |-> "tuple", items |-> <<"number">>]
None == [kind |-> "none", items |-> << >>]

isinstance_list(obj) == obj.kind = "list"
isinstance_str(x) == x # NonStr

\* np.all(isinstance(x, str) for x in obj): numpy wraps the generator object
\* in a 0-d object array without iterating it, and reducing that array gives
\* back the generator object, which is truthy whatever obj contains.
np_all_isinstance_str(obj) == TRUE

\* _check_list_of_str: TRUE when it raises TypeError, else it returns obj
check_list_of_str_raises(obj) ==
    (~ isinstance_list(obj)) \/ (~ np_all_isinstance_str(obj))

\* FilterRegistered without its condition: every requested name is kept
FilterRegistered_keep(items, gd) == items

\* [var for var in fixture_vars if var in generator_dict.keys()]
FilterRegistered(items, gd) == SelectSeq2(items, gd)

\* OrderBySequence without its membership test: fixture_sequence is taken over
OrderBySequence_all(seq_items, filtered) == seq_items

RECURSIVE OrderBySequence(_, _)
\* the loop over fixture_sequence that builds ordered_fixture_vars
OrderBySequence(seq_items, filtered) ==
    IF seq_items = << >> THEN << >>
    ELSE (IF Head(seq_items) \in Range(filtered) THEN <<Head(seq_items)>> ELSE << >>)
         \o OrderBySequence(Tail(seq_items), filtered)

\* the local fixture_vars once the header of the function has run:
\* [typeerror |-> the call raised TypeError, order |-> resolution order]
ResolveOrder(fv, gd, fs) ==
    IF check_list_of_str_raises(fv) THEN [typeerror |-> TRUE, order |-> << >>]
    ELSE LET filtered == FilterRegistered(fv.items, gd)
         IN IF fs # None
            THEN IF check_list_of_str_raises(fs)
                 THEN [typeerror |-> TRUE, order |-> << >>]
                 ELSE [typeerror |-> FALSE, order |-> OrderBySequence(fs.items, filtered)]
            ELSE [typeerror |-> FALSE, order |-> filtered]

\* ",".join(fixture_vars)
ParamStr(ord) == join(",", [i \in 1..Len(ord) |-> Str(ord[i])])

(***************************************************************************)
(* The caller's generator functions, generator_dict[var](test_name,        *)
(* **kwargs).  Each returns [out, vals, names, heap]:                      *)
(*   out = "list"  : a list of fixtures, vals                              *)
(*   out = "pair"  : a 2-tuple (fixtures, fixture_names) = (vals, names)   *)
(*   out = "pairs" : a re-iterable of (fixture, name) pairs that is        *)
(*                   neither a list nor a 2-tuple                          *)
(*   out = "exc"   : it raised an exception derived from Exception         *)
(*   out = "base"  : it raised KeyboardInterrupt, a BaseException that is  *)
(*                   not an Exception                                      *)
(* and heap is the heap it leaves behind.                                  *)
(***************************************************************************)
Returned(out, vals, names, h) == [out |-> out, vals |-> vals, names |-> names, heap |-> h]

\* the docstring's "number": a fixed list, which depends on the test only
gen_number(t, kw, h) ==
    Returned("list", IF t = "t1" THEN <<IntVal(1), IntVal(2)>>
                     ELSE <<IntVal(2), IntVal(0)>>, << >>, h)

\* the docstring's "multiples": (test_name, number, **kwargs) ->
\* [number, 2*number, ..., number*number]; TypeError without an int number
gen_multiples(t, kw, h) ==
    IF "number" \in DOMAIN kw /\ kw["number"].kind = "int"
    THEN Returned("list", [k \in 1..kw["number"].n |-> IntVal(k * kw["number"].n)], << >>, h)
    ELSE Returned("exc", << >>, << >>, h)

\* a generator that returns names with its fixtures, one of them empty
gen_named(t, kw, h) ==
    IF t = "t1"
    THEN Returned("pair", <<IntVal(1), IntVal(2)>>, <<Str("x"), Str("")>>, h)
    ELSE Returned("pairs", <<IntVal(1), IntVal(2), IntVal(3)>>,
                  <<Str("x"), Str(""), Str("y")>>, h)

\* a generator that fails for some values of number only
gen_flaky(t, kw, h) ==
    IF "number" \in DOMAIN kw /\ kw["number"] = IntVal(1)
    THEN Returned("exc", << >>, << >>, h)
    ELSE IF "number" \in DOMAIN kw /\ kw["number"] = IntVal(0)
    THEN Returned("base", << >>, << >>, h)
    ELSE Returned("list", <<IntVal(7), IntVal(8)>>, << >>, h)

\* the objects the caller's generators hold on to: two lists (mutable, copied
\* by deepcopy) and a class (mutable, atomic for deepcopy)
InitHeap == <<[atomic |-> FALSE, val |-> 0], [atomic |-> FALSE, val |-> 0],
              [atomic |-> TRUE, val |-> 0]>>
BoxesCache == <<ObjRef(1), ObjRef(2)>>
KlassCache == <<ObjRef(3)>>

\* a generator that returns the same list of mutable fixtures at every call
gen_boxes(t, kw, h) == Returned("list", BoxesCache, << >>, h)

\* a generator whose fixtures are classes
gen_klass(t, kw, h) == Returned("list", KlassCache, << >>, h)

\* a generator that changes, in place, every object it receives in kwargs
gen_mutator(t, kw, h) ==
    LET touched == {kw[k].n : k \in {x \in DOMAIN kw : kw[x].kind = "obj"}}
    IN Returned("list", <<IntVal(1), IntVal(2)>>, << >>,
                [i \in 1..Len(h) |-> IF i \in touched
                                     THEN [h[i] EXCEPT !.val = h[i].val + 1]
                                     ELSE h[i]])

\* generator_dict[fixture_var](test_name, **kwargs); the subscription raises
\* KeyError, an Exception, for a name that is not a key
CallGenerator(gd, fixture_var, t, kw, h) ==
    CASE fixture_var \notin gd -> Returned("exc", << >>, << >>, h)
      [] fixture_var = "number" -> gen_number(t, kw, h)
      [] fixture_var = "multiples" -> gen_multiples(t, kw, h)
      [] fixture_var = "named" -> gen_named(t, kw, h)
      [] fixture_var = "flaky" -> gen_flaky(t, kw, h)
      [] fixture_var = "boxes" -> gen_boxes(t, kw, h)
      [] fixture_var = "klass" -> gen_klass(t, kw, h)
      [] OTHER -> gen_mutator(t, kw, h)

\* get_fixtures without its try/except: an exception of the generator leaves it
get_fixtures_uncaught(gd, fixture_var, t, kw, h) ==
    LET res == CallGenerator(gd, fixture_var, t, kw, h)
    IN [propagates |-> res.out \in {"exc", "base"},
        fixture_prod |-> res.vals,
        fixture_names |-> IF res.out = "list"
                          THEN [i \in 1..Len(res.vals) |-> str(res.vals[i], res.heap)]
                          ELSE res.names,
        heap |-> res.heap]

(***************************************************************************)
(* get_fixtures: [propagates, fixture_prod, fixture_names, heap].          *)
(* "except Exception" does not catch a BaseException that is not an        *)
(* Exception: that one leaves get_fixtures (propagates = TRUE).            *)
(***************************************************************************)
get_fixtures(gd, fixture_var, t, kw, h) ==
    LET res == CallGenerator(gd, fixture_var, t, kw, h)
    IN CASE res.out = "base" ->
              [propagates |-> TRUE, fixture_prod |-> << >>, fixture_names |-> << >>,
               heap |-> res.heap]
         [] res.out = "exc" ->
              [propagates |-> FALSE,
               fixture_prod |-> <<FixtureGenerationError(fixture_var)>>,
               fixture_names |-> <<<<"Error:", fixture_var>>>>,
               heap |-> res.heap]
         [] res.out = "pair" ->
              [propagates |-> FALSE, fixture_prod |-> res.vals,
               fixture_names |-> res.names, heap |-> res.heap]
         [] res.out = "list" ->
              [propagates |-> FALSE, fixture_prod |-> res.vals,
               fixture_names |-> [i \in 1..Len(res.vals) |-> str(res.vals[i], res.heap)],
               heap |-> res.heap]
         [] OTHER ->
              \* starmap(lambda x, y: x, res) and starmap(lambda x, y: y, res)
              [propagates |-> FALSE, fixture_prod |-> res.vals,
               fixture_names |-> res.names, heap |-> res.heap]

(***************************************************************************)
(* copy.deepcopy.  ints are atomic for deepcopy, and so are classes: the   *)
(* object itself is returned.  A mutable object is copied into a new heap  *)
(* cell; memo maps the objects already copied by this call to their copy.  *)
(* The copy of a FixtureGenerationError is a new exception with the same   *)
(* fixture_name.                                                           *)
(***************************************************************************)
\* deepcopy replaced by a plain reference to the object
deepcopy_one_shared(x, h, memo) == [val |-> x, heap |-> h, memo |-> memo]

deepcopy_one(x, h, memo) ==
    IF x.kind # "obj" \/ h[x.n].atomic THEN [val |-> x, heap |-> h, memo |-> memo]
    ELSE IF x.n \in DOMAIN memo THEN [val |-> ObjRef(memo[x.n]), heap |-> h, memo |-> memo]
    ELSE [val |-> ObjRef(Len(h) + 1), heap |-> Append(h, h[x.n]),
          memo |-> [k \in DOMAIN memo \cup {x.n} |->
                        IF k = x.n THEN Len(h) + 1 ELSE memo[k]]]

RECURSIVE deepcopy_items(_, _, _)
deepcopy_items(xs, h, memo) ==
    IF xs = << >> THEN [val |-> << >>, heap |-> h]
    ELSE LET first == deepcopy_one(Head(xs), h, memo)
             rest == deepcopy_items(Tail(xs), first.heap, first.memo)
         IN [val |-> <<first.val>> \o rest.val, heap |-> rest.heap]

\* deepcopy(x) of a tuple of fixtures: [val, heap]
deepcopy_tuple(xs, h) == deepcopy_items(xs, h, << >>)

\* deepcopy(x) of one fixture: [val, heap]
deepcopy(x, h) ==
    LET r == deepcopy_one(x, h, << >>) IN [val |-> r.val, heap |-> r.heap]

(***************************************************************************)
(* one_fixture_prod.  Calling the generator function runs none of its      *)
(* body: it returns a suspended generator, a frame                         *)
(*   [fixture_var, old_fixture_vars, alive, fixture, fixture_name, cands]  *)
(* where (fixture, fixture_name) is the item of the outer for loop and     *)
(* cands is what is left of zip(new_fixtures, new_fixture_names).          *)
(***************************************************************************)
NewFrame(old_fixture_vars, fixture_var) ==
    [fixture_var |-> fixture_var, old_fixture_vars |-> old_fixture_vars,
     alive |-> TRUE, fixture |-> << >>, fixture_name |-> << >>, cands |-> << >>]

\* zip that stops one pair early
zip_short(xs, ys) ==
    [i \in 1..(Min(Len(xs), Len(ys)) - 1) |-> [fixture |-> xs[i], name |-> ys[i]]]

\* zip(new_fixtures, new_fixture_names)
zip(xs, ys) == [i \in 1..Min(Len(xs), Len(ys)) |-> [fixture |-> xs[i], name |-> ys[i]]]

\* kwargs = dict() on both branches: the earlier values are not passed on
make_kwargs_none(old_fixture_vars, fixture) == << >>

\* kwargs of line 160-163: dict() or dict(zip(old_fixture_vars, fixture)),
\* where a later pair overrides an earlier pair with the same key
make_kwargs(old_fixture_vars, fixture) ==
    IF Len(old_fixture_vars) = 0 THEN << >>
    ELSE LET n == Min(Len(old_fixture_vars), Len(fixture))
         IN [k \in {old_fixture_vars[j] : j \in 1..n} |->
                fixture[CHOOSE j \in 1..n :
                           /\ old_fixture_vars[j] = k
                           /\ \A l \in (j + 1)..n : old_fixture_vars[l] # k]]

\* the record of one invocation of a generator_dict callable
CallRecord(fixture_var, t, kw, fixture) ==
    [fixture_var |-> fixture_var, test_name |-> t, kwargs |-> kw, fixture |-> fixture]

\* prod_fixture = deepcopy(fixture) + (deepcopy(new_fixture),);
\* prod_name = fixture_name + [new_fixture_name]: [item, heap]
extend(fixture, fixture_name, cand, h) ==
    LET c1 == deepcopy_tuple(fixture, h)
        c2 == deepcopy(cand.fixture, c1.heap)
    IN [item |-> [fixture |-> c1.val \o <<c2.val>>,
                  name |-> fixture_name \o <<cand.name>>],
        heap |-> c2.heap]

(***************************************************************************)
(* next() on the generator at level i of the pipeline st = [t, gd, src,    *)
(* frames, heap, calls]; level 0 is the iterator of the list [((), [])].   *)
(* The result is [res, item, st] with res = "item", "stop" (StopIteration) *)
(* or "base" (an exception leaves the generator, which is then finished).  *)
(***************************************************************************)
RECURSIVE next(_, _)
next(i, st) ==
    IF i = 0
    THEN IF st.src = << >> THEN [res |-> "stop", item |-> << >>, st |-> st]
         ELSE [res |-> "item", item |-> Head(st.src),
               st |-> [st EXCEPT !.src = Tail(st.src)]]
    ELSE LET f == st.frames[i]
         IN IF ~ f.alive THEN [res |-> "stop", item |-> << >>, st |-> st]
            ELSE IF f.cands # << >>
            THEN \* the inner for loop yields its next product
                 LET e == extend(f.fixture, f.fixture_name, Head(f.cands), st.heap)
                 IN [res |-> "item", item |-> e.item,
                     st |-> [st EXCEPT !.frames[i].cands = Tail(f.cands),
                                       !.heap = e.heap]]
            ELSE \* the outer for loop asks fixture_prod for its next item
                 LET r == next(i - 1, st)
                 IN IF r.res # "item"
                    THEN [res |-> r.res, item |-> << >>,
                          st |-> [r.st EXCEPT !.frames[i].alive = FALSE]]
                    ELSE LET kw == make_kwargs(f.old_fixture_vars, r.item.fixture)
                             g == get_fixtures(st.gd, f.fixture_var, st.t, kw, r.st.heap)
                             logged == Append(r.st.calls,
                                              CallRecord(f.fixture_var, st.t, kw,
                                                         r.item.fixture))
                         IN IF g.propagates
                            THEN [res |-> "base", item |-> << >>,
                                  st |-> [r.st EXCEPT !.frames[i].alive = FALSE,
                                                      !.heap = g.heap,
                                                      !.calls = logged]]
                            ELSE next(i, [r.st EXCEPT
                                            !.frames[i].fixture = r.item.fixture,
                                            !.frames[i].fixture_name = r.item.name,
                                            !.frames[i].cands =
                                                zip(g.fixture_prod, g.fixture_names),
                                            !.heap = g.heap,
                                            !.calls = logged])

RECURSIVE Drain(_, _)
\* list(...) of the outermost generator: every item it yields, and how many
\* exceptions left it on the way, as [items, raised, st]
Drain(st, acc) ==
    LET r == next(Len(st.frames), st)
    IN IF r.res = "item" THEN Drain(r.st, [acc EXCEPT !.items = Append(@, r.item)])
       ELSE IF r.res = "base" THEN Drain(r.st, [acc EXCEPT !.raised = @ + 1])
       ELSE [items |-> acc.items, raised |-> acc.raised, st |-> r.st]

\* the pipeline expanded inside the call: a list of all products in place of
\* the suspended generators
PipelineEager(t, gd, ord, h) ==
    LET d == Drain([t |-> t, gd |-> gd,
                    src |-> <<[fixture |-> << >>, name |-> << >>]>>,
                    frames |-> [i \in 1..Len(ord) |->
                                   NewFrame(SubSeq(ord, 1, i - 1), ord[i])],
                    heap |-> h, calls |-> << >>],
                   [items |-> << >>, raised |-> 0])
    IN [t |-> t, gd |-> gd, src |-> d.items, frames |-> << >>,
        heap |-> d.st.heap, calls |-> d.st.calls]

\* lines 171-178: the list [((), [])] wrapped in one suspended generator per
\* variable of the resolution order; no generator_dict callable is invoked
Pipeline(t, gd, ord, h) ==
    [t |-> t,
     gd |-> gd,
     src |-> <<[fixture |-> << >>, name |-> << >>]>>,
     frames |-> [i \in 1..Len(ord) |-> NewFrame(SubSeq(ord, 1, i - 1), ord[i])],
     heap |-> h,
     calls |-> << >>]

\* _remove_single without its test: a 1-tuple stays a tuple
remove_single_never(x) == [tuple |-> TRUE, items |-> x]

\* _remove_single: a bare value for a 1-tuple, else the tuple itself
remove_single(x) ==
    IF Len(x) = 1 THEN [tuple |-> FALSE, items |-> <<x[1]>>]
    ELSE [tuple |-> TRUE, items |-> x]

\* make_fixture_prod(fixture_prod, fixture_name)
make_fixture_prod(fixture_prod, fixture_name) == remove_single(fixture_prod)

\* make_fixture_name without its filter: empty display names are joined too
make_fixture_name_all(fixture_prod, fixture_name) == join("-", fixture_name)

\* make_fixture_name(fixture_prod, fixture_name)
make_fixture_name(fixture_prod, fixture_name) ==
    join("-", SelectSeq(fixture_name, LAMBDA x : x # << >>))

(***************************************************************************)
(* The state machine: one call of create_conditional_fixtures_and_names,   *)
(* then the consumer drawing from the two returned iterators in any order. *)
(***************************************************************************)
Tag(recs, during) == [i \in 1..Len(recs) |-> [during |-> during, call |-> recs[i]]]

\* no conversion and no set_classifier call is under way
NoConversion == [pc |-> "idle"]
NoClassifierCall == [pc |-> "idle"]

\* the generator_dict arguments: the registry without at most MaxUnreg names
Dicts(names) == {names \ U : U \in {V \in SUBSET names : Cardinality(V) <= MaxUnreg}}

InitCommon ==
    /\ pc = "init"
    /\ test_name \in TestNames
    /\ order = << >>
    /\ fixture_param_str = << >>
    /\ src = << >>
    /\ frames = << >>
    /\ buf1 = << >>
    /\ buf2 = << >>
    /\ out_values = << >>
    /\ out_names = << >>
    /\ done1 = FALSE
    /\ done2 = FALSE
    /\ raised = << >>
    /\ calls = << >>
    /\ heap = InitHeap
    /\ nmut = 0
    /\ conv = NoConversion
    /\ clf = NoClassifierCall

\* argument scenarios: any arguments, well-typed or not
Init ==
    /\ InitCommon
    /\ generator_dict \in Dicts(ArgNames)
    /\ fixture_vars \in {List(s) : s \in SeqsUpTo(ArgNames \cup {NonStr}, MaxVars)}
                           \cup {NotAList, None}
    /\ fixture_sequence \in {List(s) : s \in SeqsUpTo(ArgNames \cup {NonStr}, MaxSeq)}
                               \cup {NotAList, None}

\* expansion scenarios: longer resolution orders, generators that fail
InitDeep ==
    /\ InitCommon
    /\ generator_dict \in Dicts(MainNames)
    /\ fixture_vars \in {List(s) : s \in SeqsUpTo(MainNames, MaxDeepVars)} \cup {NotAList}
    /\ fixture_sequence = None

\* aliasing scenarios: fixtures that are mutable objects
InitAlias ==
    /\ InitCommon
    /\ generator_dict \in Dicts(AliasNames)
    /\ fixture_vars \in {List(s) : s \in SeqsUpTo(AliasNames, MaxAliasVars)} \cup {NotAList}
    /\ fixture_sequence \in {None, List(<<"mutator", "klass", "boxes">>)}

\* create_conditional_fixtures_and_names(test_name, fixture_vars,
\* generator_dict, fixture_sequence), up to its return or its TypeError
Call ==
    /\ pc = "init"
    /\ LET r == ResolveOrder(fixture_vars, generator_dict, fixture_sequence)
           p == Pipeline(test_name, generator_dict, r.order, heap)
       IN IF r.typeerror
          THEN /\ pc' = "typeerror"
               /\ UNCHANGED <<order, fixture_param_str, src, frames, calls, heap>>
          ELSE /\ pc' = "returned"
               /\ order' = r.order
               /\ fixture_param_str' = ParamStr(r.order)
               /\ src' = p.src
               /\ frames' = p.frames
               /\ calls' = Tag(p.calls, "call")
               /\ heap' = p.heap
    /\ UNCHANGED <<test_name, fixture_vars, generator_dict, fixture_sequence,
                   buf1, buf2, out_values, out_names, done1, done2, raised, nmut,
                   conv, clf>>

\* next() on the shared source of the tee, from the state variables
Underlying ==
    next(Len(frames), [t |-> test_name, gd |-> generator_dict, src |-> src, frames |-> frames,
                       heap |-> heap, calls |-> << >>])

\* next(fixture_prod): the first tee iterator, mapped by make_fixture_prod
NextValue ==
    /\ pc = "returned"
    /\ ~ done1
    /\ IF buf1 # << >>
       THEN /\ out_values' = Append(out_values,
                                    make_fixture_prod(Head(buf1).fixture, Head(buf1).name))
            /\ buf1' = Tail(buf1)
            /\ UNCHANGED <<src, frames, heap, calls, buf2, done1, raised>>
       ELSE LET r == Underlying
            IN /\ src' = r.st.src
               /\ frames' = r.st.frames
               /\ heap' = r.st.heap
               /\ calls' = calls \o Tag(r.st.calls, "consume")
               /\ buf1' = buf1
               /\ buf2' = IF r.res = "item" THEN Append(buf2, r.item) ELSE buf2
               /\ out_values' = IF r.res = "item"
                                THEN Append(out_values,
                                            make_fixture_prod(r.item.fixture, r.item.name))
                                ELSE out_values
               /\ done1' = (r.res = "stop")
               /\ raised' = IF r.res = "base"
                            THEN Append(raised, "fixture_prod") ELSE raised
    /\ UNCHANGED <<pc, test_name, fixture_vars, generator_dict, fixture_sequence,
                   order, fixture_param_str, out_names, done2, nmut, conv, clf>>

\* next(fixture_names): the second tee iterator, mapped by make_fixture_name
NextName ==
    /\ pc = "returned"
    /\ ~ done2
    /\ IF buf2 # << >>
       THEN /\ out_names' = Append(out_names,
                                   make_fixture_name(Head(buf2).fixture, Head(buf2).name))
            /\ buf2' = Tail(buf2)
            /\ UNCHANGED <<src, frames, heap, calls, buf1, done2, raised>>
       ELSE LET r == Underlying
            IN /\ src' = r.st.src
               /\ frames' = r.st.frames
               /\ heap' = r.st.heap
               /\ calls' = calls \o Tag(r.st.calls, "consume")
               /\ buf2' = buf2
               /\ buf1' = IF r.res = "item" THEN Append(buf1, r.item) ELSE buf1
               /\ out_names' = IF r.res = "item"
                               THEN Append(out_names,
                                           make_fixture_name(r.item.fixture, r.item.name))
                               ELSE out_names
               /\ done2' = (r.res = "stop")
               /\ raised' = IF r.res = "base"
                            THEN Append(raised, "fixture_names") ELSE raised
    /\ UNCHANGED <<pc, test_name, fixture_vars, generator_dict, fixture_sequence,
                   order, fixture_param_str, out_values, done1, nmut, conv, clf>>

\* the consumer changes, in place, the object that is component j of the
\* i-th fixture it has drawn
MutateEmitted ==
    /\ pc = "returned"
    /\ nmut < MaxMutations
    /\ \E i \in 1..Len(out_values) : \E j \in 1..Len(out_values[i].items) :
          /\ out_values[i].items[j].kind = "obj"
          /\ heap' = [heap EXCEPT ![out_values[i].items[j].n].val = @ + 1]
    /\ nmut' = nmut + 1
    /\ UNCHANGED <<pc, test_name, fixture_vars, generator_dict, fixture_sequence,
                   order, fixture_param_str, src, frames, buf1, buf2, out_values,
                   out_names, done1, done2, raised, calls, conv, clf>>

Next == Call \/ NextValue \/ NextName

NextAlias == Call \/ NextValue \/ NextName \/ MutateEmitted

Spec == Init /\ [][Next]_vars

SpecDeep == InitDeep /\ [][Next]_vars

SpecAlias == InitAlias /\ [][NextAlias]_vars

(***************************************************************************)
(* The conditional tree of the docstring (lines 74-96), walked top-down:   *)
(* Cands gives the candidates of one variable under one partial tuple,     *)
(* Tree the root-to-leaf paths below a partial tuple in depth-first order. *)
(* [items, aborted, lists]: aborted when an exception ended the walk,      *)
(* lists when every generator called returned a list.  caught is the set   *)
(* of generator outcomes that become an error marker.                      *)
(***************************************************************************)
IsPrefix(s, t) == Len(s) <= Len(t) /\ \A i \in 1..Len(s) : s[i] = t[i]

\* the kwargs v1 = x1, ..., v(i-1) = x(i-1) of the docstring
KwOf(ord, fixture) ==
    [k \in {ord[j] : j \in 1..Len(fixture)} |->
        fixture[CHOOSE j \in 1..Len(fixture) : ord[j] = k]]

\* candidates and display names of variable v under kwargs kw
Cands(v, kw) ==
    LET res == CallGenerator(generator_dict, v, test_name, kw, InitHeap)
    IN CASE res.out = "list" ->
              [i \in 1..Len(res.vals) |->
                  [fixture |-> res.vals[i], name |-> Str(ToString(res.vals[i].n))]]
         [] res.out \in {"exc", "base"} ->
              <<[fixture |-> [kind |-> "err", n |-> 0, var |-> v],
                 name |-> <<"Error:", v>>]>>
         [] OTHER ->
              [i \in 1..Len(res.vals) |-> [fixture |-> res.vals[i], name |-> res.names[i]]]

RECURSIVE Tree(_, _, _, _), TreeOver(_, _, _, _, _, _)
Tree(ord, fixture, names, caught) ==
    IF Len(fixture) = Len(ord)
    THEN [items |-> <<[fixture |-> fixture, names |-> names]>>,
          aborted |-> FALSE, lists |-> TRUE]
    ELSE LET v == ord[Len(fixture) + 1]
             kw == KwOf(ord, fixture)
             out == CallGenerator(generator_dict, v, test_name, kw, InitHeap).out
         IN IF out \in {"exc", "base"} \ caught
            THEN [items |-> << >>, aborted |-> TRUE, lists |-> FALSE]
            ELSE TreeOver(ord, fixture, names, Cands(v, kw), out = "list", caught)

TreeOver(ord, fixture, names, cands, lists, caught) ==
    IF cands = << >> THEN [items |-> << >>, aborted |-> FALSE, lists |-> lists]
    ELSE LET first == Tree(ord, Append(fixture, Head(cands).fixture),
                           Append(names, Head(cands).name), caught)
         IN IF first.aborted THEN [first EXCEPT !.lists = FALSE]
            ELSE LET rest == TreeOver(ord, fixture, names, Tail(cands), lists, caught)
                 IN [items |-> first.items \o rest.items,
                     aborted |-> rest.aborted,
                     lists |-> first.lists /\ rest.lists]

\* the tree of the resolution order of the current call, where an exception
\* derived from Exception becomes an error marker
Expected == Tree(order, << >>, << >>, {"exc"})

RECURSIVE Product(_)
Product(ns) == IF ns = << >> THEN 1 ELSE Head(ns) * Product(Tail(ns))

\* the list lengths the generator of the i-th variable returned, over all its calls
Sizes(i) ==
    {Len(CallGenerator(generator_dict, order[i], test_name,
                       calls[k].call.kwargs, InitHeap).vals) :
        k \in {j \in 1..Len(calls) : Len(calls[j].call.fixture) = i - 1}}

FixedSizes == \A i \in 1..Len(order) : Cardinality(Sizes(i)) = 1

\* C1: with generators that return lists, the values produced are exactly the
\* root-to-leaf paths of the conditional tree, each once and in depth-first
\* order (at any moment a prefix of them, and all of them once fixture_prod is
\* exhausted); their number is the product of the list lengths when every
\* generator returned lists of one size.
C1_ValuesAreTreePaths ==
    (pc = "returned" /\ Expected.lists) =>
        LET paths == [i \in 1..Len(Expected.items) |-> Expected.items[i].fixture]
            got == [i \in 1..Len(out_values) |-> out_values[i].items]
        IN /\ IsPrefix(got, paths)
           /\ done1 => got = paths
           /\ (done1 /\ FixedSizes) =>
                 Len(got) = Product([i \in 1..Len(order) |->
                                        CHOOSE n \in Sizes(i) : TRUE])

\* the docstring's example: number in [1, 2], multiples of number up to its square
C1_Witness ==
    /\ done1
    /\ order = <<"number", "multiples">>
    /\ out_values = <<[tuple |-> TRUE, items |-> <<IntVal(1), IntVal(1)>>],
                      [tuple |-> TRUE, items |-> <<IntVal(2), IntVal(2)>>],
                      [tuple |-> TRUE, items |-> <<IntVal(2), IntVal(4)>>]>>

(***************************************************************************)
(* Exceptions raised by a generator.                                       *)
(***************************************************************************)
\* what the k-th logged invocation did: "list", "pair", "pairs", "exc" or "base"
Outcome(k) ==
    CallGenerator(generator_dict, calls[k].call.fixture_var, calls[k].call.test_name,
                  calls[k].call.kwargs, InitHeap).out

Marker(v) == [kind |-> "err", n |-> 0, var |-> v]

\* the exception of the k-th invocation reached the consumer: the generators
\* it passes through are finished, so no invocation follows it
Propagated(k) == raised # << >> /\ k = Len(calls)

\* the - join of the non-empty display names
NameOf(names) ==
    LET ne == SelectSeq(names, LAMBDA x : Len(x) > 0)
    IN Flatten([k \in 1..(2 * Len(ne) - 1) |->
                   IF k % 2 = 1 THEN ne[(k + 1) \div 2] ELSE <<"-">>])

\* what is produced is the start of the conditional tree in which the outcomes
\* in caught give an error marker, and all of it once the iterators are exhausted
ProducesTree(caught) ==
    LET e == Tree(order, << >>, << >>, caught)
        paths == [i \in 1..Len(e.items) |-> e.items[i].fixture]
        ids == [i \in 1..Len(e.items) |-> NameOf(e.items[i].names)]
    IN pc = "returned" =>
          /\ IsPrefix([i \in 1..Len(out_values) |-> out_values[i].items], paths)
          /\ IsPrefix(out_names, ids)
          /\ done1 => Len(out_values) = Len(paths)
          /\ done2 => Len(out_names) = Len(ids)

\* a generator whose outcome is in caught is isolated: its exception does not
\* reach the consumer, its variable has the one candidate Error:<variable> in
\* that branch, and the generator of the next variable is invoked with it
Isolated(caught) ==
    /\ \A k \in 1..Len(calls) :
          Outcome(k) \in caught =>
             LET c == calls[k].call
                 i == Len(c.fixture) + 1
             IN /\ ~ Propagated(k)
                /\ i < Len(order) =>
                      /\ k + 1 <= Len(calls)
                      /\ calls[k + 1].call.fixture_var = order[i + 1]
                      /\ calls[k + 1].call.fixture = Append(c.fixture, Marker(c.fixture_var))
                      /\ c.fixture_var \in DOMAIN calls[k + 1].call.kwargs
                      /\ calls[k + 1].call.kwargs[c.fixture_var] = Marker(c.fixture_var)
                /\ \A j \in 1..Len(out_values) :
                      SubSeq(out_values[j].items, 1, i - 1) = c.fixture =>
                         out_values[j].items[i] = Marker(c.fixture_var)
    /\ (\A k \in 1..Len(calls) : Outcome(k) \in caught \cup {"list", "pair", "pairs"})
          => raised = << >>
    /\ ProducesTree(caught)

\* C2 as claimed: a generator that raises any exception, KeyboardInterrupt
\* included, is isolated
C2_AnyExceptionIsolated == Isolated({"exc", "base"})

\* C2: a generator that raises an exception derived from Exception is isolated:
\* one candidate Error:<variable> in that branch, nothing propagates, later
\* generators are invoked with the marker, sibling branches are as in the tree.
C2_ExceptionIsolated == Isolated({"exc"})

\* flaky raises ValueError under number = 1 and returns [7, 8] under number = 2;
\* named is invoked with the marker
C2_Witness ==
    /\ done1 /\ done2
    /\ test_name = "t1"
    /\ order = <<"number", "flaky", "named">>
    /\ \E k \in 1..Len(calls) :
          /\ Outcome(k) = "exc"
          /\ calls[k + 1].call.kwargs["flaky"] = Marker("flaky")
    /\ out_values[1].items = <<IntVal(1), Marker("flaky"), IntVal(1)>>
    /\ out_names[1] = <<"1", "-", "Error:", "flaky", "-", "x">>
    /\ out_values[3].items = <<IntVal(2), IntVal(7), IntVal(1)>>
    /\ Len(out_values) = 6

(***************************************************************************)
(* Validation of the arguments.                                            *)
(***************************************************************************)
IsListOfStr(obj) == obj.kind = "list" /\ \A i \in 1..Len(obj.items) : obj.items[i] # NonStr

\* C3 as claimed: TypeError, before any generator is invoked, whenever
\* fixture_vars or a supplied fixture_sequence is not a list of str
C3_TypeErrorUnlessListsOfStr ==
    (pc # "init" /\ (~ IsListOfStr(fixture_vars)
                     \/ (fixture_sequence # None /\ ~ IsListOfStr(fixture_sequence))))
        => (pc = "typeerror" /\ calls = << >>)

(***************************************************************************)
(* Alignment of the two iterators.                                         *)
(***************************************************************************)
\* C4: the i-th name is the - join of the non-empty display names of the picks
\* that form the i-th value, for every number of variables and every order of
\* drawing from the two iterators; exhausted, they have the same length.
C4_NamesAligned ==
    /\ \A i \in 1..Len(out_values) :
          /\ i <= Len(Expected.items)
          /\ out_values[i].items = Expected.items[i].fixture
    /\ \A i \in 1..Len(out_names) :
          /\ i <= Len(Expected.items)
          /\ out_names[i] = NameOf(Expected.items[i].names)
    /\ (done1 /\ done2) => Len(out_values) = Len(out_names)

\* names drawn ahead of values, with an empty display name left out of "1"
C4_Witness ==
    /\ order = <<"number", "named">>
    /\ test_name = "t1"
    /\ Len(out_values) = 1
    /\ out_names = <<<<"1", "-", "x">>, <<"1">>>>
    /\ Len(buf1) = 1

(***************************************************************************)
(* The resolution order.                                                   *)
(***************************************************************************)
\* the requested names that are keys of generator_dict, in the order requested
Requested == SelectSeq(fixture_vars.items, LAMBDA v : v \in generator_dict)

Occurrences(s, x) == Cardinality({i \in 1..Len(s) : s[i] = x})

\* C5 as claimed: with a fixture_sequence, the resolution order holds every
\* requested variable that has a generator exactly once, and fixture_param_str
\* is the comma join of all of them
C5_SequenceKeepsEveryVariable ==
    (pc = "returned" /\ fixture_sequence # None) =>
        /\ \A v \in Range(Requested) : Occurrences(order, v) = 1
        /\ Range(order) = Range(Requested)
        /\ SelectSeq(fixture_param_str, LAMBDA c : c # ",") = order

PositionIn(s, x) == CHOOSE i \in 1..Len(s) : s[i] = x

\* C6: every variable of the resolution order is requested and has a generator,
\* and those that occur in fixture_sequence keep its relative order;
\* fixture_vars = [number, multiples] with fixture_sequence = [multiples,
\* number, named] gives [multiples, number] and "multiples,number".
C6_SequenceNeverAdds ==
    pc = "returned" =>
        /\ Range(order) \subseteq Range(fixture_vars.items) \cap generator_dict
        /\ fixture_sequence # None =>
              /\ Range(order) = Range(Requested) \cap Range(fixture_sequence.items)
              /\ \A a, b \in 1..Len(order) :
                    a < b => PositionIn(fixture_sequence.items, order[a])
                                < PositionIn(fixture_sequence.items, order[b])
        /\ (/\ fixture_vars = List(<<"number", "multiples">>)
            /\ fixture_sequence = List(<<"multiples", "number", "named">>)
            /\ {"number", "multiples"} \subseteq generator_dict)
              => /\ order = <<"multiples", "number">>
                 /\ fixture_param_str = <<"multiples", ",", "number">>

C6_Witness ==
    /\ pc = "returned"
    /\ fixture_vars = List(<<"number", "multiples">>)
    /\ fixture_sequence = List(<<"multiples", "number", "named">>)
    /\ order = <<"multiples", "number">>

(***************************************************************************)
(* Variables without a generator.                                          *)
(***************************************************************************)
\* the whole result of a call, with both iterators drawn to their end:
\* [typeerror, param, values, names, raised]
Results(t, fv, gd, fs) ==
    LET r == ResolveOrder(fv, gd, fs)
        d == Drain(Pipeline(t, gd, r.order, InitHeap), [items |-> << >>, raised |-> 0])
    IN IF r.typeerror
       THEN [typeerror |-> TRUE, param |-> << >>, values |-> << >>, names |-> << >>,
             raised |-> 0]
       ELSE [typeerror |-> FALSE,
             param |-> ParamStr(r.order),
             values |-> [i \in 1..Len(d.items) |->
                            make_fixture_prod(d.items[i].fixture, d.items[i].name)],
             names |-> [i \in 1..Len(d.items) |->
                           make_fixture_name(d.items[i].fixture, d.items[i].name)],
             raised |-> d.raised]

\* fixture_vars without the names that are not keys of generator_dict
WithoutUnregistered ==
    List(SelectSeq(fixture_vars.items, LAMBDA v : v = NonStr \/ v \in generator_dict))

\* C7: a requested variable without a generator has no effect: the call gives
\* the parameter string, the values and the names of the call made without
\* it, and raises nothing for it.
C7_UnregisteredDropped ==
    (pc # "init" /\ fixture_vars.kind = "list") =>
        LET ref == Results(test_name, WithoutUnregistered, generator_dict, fixture_sequence)
        IN /\ (pc = "typeerror") = ref.typeerror
           /\ pc = "returned" =>
                 /\ fixture_param_str = ref.param
                 /\ IsPrefix(out_values, ref.values)
                 /\ IsPrefix(out_names, ref.names)
                 /\ done1 => out_values = ref.values
                 /\ done2 => out_names = ref.names
                 /\ Len(raised) <= ref.raised

\* named has no generator: [number, named] gives what [number] gives
C7_Witness ==
    /\ done1 /\ done2
    /\ fixture_vars = List(<<"number", "named">>)
    /\ generator_dict = {"number", "multiples"}
    /\ fixture_sequence = None
    /\ fixture_param_str = <<"number">>
    /\ Len(out_values) = 2
    /\ out_values[1] = [tuple |-> FALSE, items |-> <<IntVal(IF test_name = "t1" THEN 1 ELSE 2)>>]

(***************************************************************************)
(* When the generators are invoked.                                        *)
(***************************************************************************)
NothingDrawn ==
    out_values = << >> /\ out_names = << >> /\ ~ done1 /\ ~ done2 /\ raised = << >>

C9_KwargsAreEarlierValues ==
    \A k \in 1..Len(calls) :
        LET c == calls[k].call
            i == Len(c.fixture) + 1
        IN /\ i <= Len(order)
           /\ c.fixture_var = order[i]
           /\ c.test_name = test_name
           /\ DOMAIN c.kwargs = {order[j] : j \in 1..(i - 1)}
           /\ \A j \in 1..(i - 1) :
                 /\ c.kwargs[order[j]] = c.fixture[j]
                 /\ c.kwargs[order[j]].kind \in {"int", "err"}
                 /\ \E x \in Range(Cands(order[j], KwOf(order, SubSeq(c.fixture, 1, j - 1)))) :
                       x.fixture = c.fixture[j]

\* named is invoked with the error marker of multiples and a value of number
C9_Witness ==
    /\ order = <<"multiples", "number", "named">>
    /\ \E k \in 1..Len(calls) :
          /\ calls[k].call.fixture_var = "named"
          /\ calls[k].call.kwargs = [v \in {"multiples", "number"} |->
                                        IF v = "multiples" THEN Marker("multiples")
                                        ELSE IntVal(2)]

(***************************************************************************)
(* Aliasing between branches.                                              *)
(***************************************************************************)
\* the objects held in the lists the caller's generators return
CachedRefs == Range(BoxesCache) \cup Range(KlassCache)

\* x is an object whose deepcopy-atomicity is one of flags
IsObject(x, h, flags) == x.kind = "obj" /\ h[x.n].atomic \in flags

\* no object of an emitted fixture is held in a generator's candidate list or
\* is part of another emitted fixture, and the candidate lists hold what they held
AliasFree(h, flags) ==
    /\ \A i \in 1..Len(out_values) : \A j \in 1..Len(out_values[i].items) :
          IsObject(out_values[i].items[j], h, flags) =>
             /\ out_values[i].items[j] \notin CachedRefs
             /\ \A i2 \in 1..Len(out_values) : \A j2 \in 1..Len(out_values[i2].items) :
                   i2 # i => out_values[i2].items[j2] # out_values[i].items[j]
    /\ \A r \in CachedRefs : IsObject(r, h, flags) => h[r.n] = InitHeap[r.n]

\* the emitted fixtures in which a step changes the content of some object
Changed(flags) ==
    {i \in 1..Len(out_values) :
        \E j \in 1..Len(out_values[i].items) :
           /\ IsObject(out_values[i].items[j], heap, flags)
           /\ heap'[out_values[i].items[j].n] # heap[out_values[i].items[j].n]}

\* a step leaves the arguments alone, changes the content of at most one
\* emitted fixture, and leaves the emitted fixtures free of aliases
IsolatedStep(flags) ==
    /\ UNCHANGED <<test_name, fixture_vars, generator_dict, fixture_sequence>>
    /\ Cardinality(Changed(flags)) <= 1
    /\ AliasFree(heap', flags)

\* C10 as claimed: the arguments are unchanged, and no object of an emitted
\* fixture is shared with a candidate list or with another fixture, whatever
\* kind of object it is
C10_NoObjectShared == [][IsolatedStep({TRUE, FALSE})]_vars

\* C10: the arguments are unchanged, and no object that deepcopy copies is
\* shared between an emitted fixture and a candidate list or another fixture,
\* so a change made to one in place is seen in its own fixture only.  (Objects
\* that are atomic for deepcopy, such as classes, are shared.)
C10_CopiedObjectsNotShared == [][IsolatedStep({FALSE})]_vars

\* boxes then mutator: four fixtures, one of them changed by the consumer,
\* while the generator's own list still holds unchanged objects
C10_Witness ==
    /\ order = <<"boxes", "mutator">>
    /\ done1
    /\ Len(out_values) = 4
    /\ nmut = 1
    /\ \E i \in 1..4 : heap[out_values[i].items[1].n].val = 2
    /\ \E i \in 1..4 : heap[out_values[i].items[1].n].val = 1
    /\ heap[1].val = 0

(***************************************************************************)
(* The shape of the values.                                                *)
(***************************************************************************)
\* x is a candidate of the k-th variable under the first k-1 components of xs
IsCandidate(xs, k) ==
    \E c \in Range(Cands(order[k], KwOf(order, SubSeq(xs, 1, k - 1)))) : c.fixture = xs[k]

\* C11: with one resolved variable every value is the bare candidate, not a
\* 1-tuple; with N >= 2 resolved variables every value is a tuple of length N
\* whose k-th component is a candidate of the k-th variable.
C11_BareOrTuple ==
    \A i \in 1..Len(out_values) :
        /\ Len(order) = 1 =>
              /\ ~ out_values[i].tuple
              /\ Len(out_values[i].items) = 1
              /\ IsCandidate(out_values[i].items, 1)
        /\ Len(order) >= 2 =>
              /\ out_values[i].tuple
              /\ Len(out_values[i].items) = Len(order)
              /\ \A k \in 1..Len(order) : IsCandidate(out_values[i].items, k)

\* number alone: the values are 1 and 2, not (1,) and (2,)
C11_Witness ==
    /\ done1
    /\ order = <<"number">>
    /\ test_name = "t1"
    /\ out_values = <<[tuple |-> FALSE, items |-> <<IntVal(1)>>],
                      [tuple |-> FALSE, items |-> <<IntVal(2)>>]>>

(***************************************************************************)
(* sktime/datatypes/_series_as_panel/_convert.py: convert_Series_to_Panel  *)
(* and convert_Panel_to_Series.  A data container is a record of one       *)
(* shape: its python type, its shape, its values in row-major order, the   *)
(* number of levels of its index (pandas) and its elements (list).         *)
(***************************************************************************)
\* largest extent of an axis of the containers tried
MaxDim == 2

\* the values a cell takes
Cells == {0, 1}

\* number of cells of a shape
RECURSIVE Size(_)
Size(shape) == IF shape = << >> THEN 1 ELSE Head(shape) * Size(Tail(shape))

np_ndarray(shape, data) ==
    [type |-> "ndarray", shape |-> shape, data |-> data, levels |-> 0, items |-> << >>]

\* a pd.DataFrame of n rows and d columns whose index has the given levels
pd_DataFrame(n, d, data, levels) ==
    [type |-> "DataFrame", shape |-> <<n, d>>, data |-> data, levels |-> levels,
     items |-> << >>]

pd_Series(n, data) ==
    [type |-> "Series", shape |-> <<n>>, data |-> data, levels |-> 1, items |-> << >>]

\* a python list of containers
list(items) ==
    [type |-> "list", shape |-> << >>, data |-> << >>, levels |-> 0, items |-> items]

\* no container: the conversion did not start from a series
NoObject == [type |-> "none", shape |-> << >>, data |-> << >>, levels |-> 0, items |-> << >>]

isinstance(obj, type) == obj.type = type

\* np.expand_dims(obj, axis): axes of extent 1 at the (0-based) positions of
\* the result named by axis; the values keep their order
expand_dims(obj, axis) ==
    LET m == Len(obj.shape) + Cardinality(axis)
    IN [obj EXCEPT !.shape =
           [i \in 1..m |-> IF (i - 1) \in axis THEN 1
                           ELSE obj.shape[i - Cardinality({a \in axis : a < i - 1})]]]

\* np.reshape(obj, shape), C order: the flat sequence of values is kept
reshape(obj, shape) == [obj EXCEPT !.shape = shape]

\* pd.DataFrame(obj) of a pd.Series: one column
DataFrame_of_Series(obj) == pd_DataFrame(obj.shape[1], 1, obj.data, obj.levels)

Return(obj) == [raises |-> "none", ret |-> obj]
Raise(exc) == [raises |-> exc, ret |-> NoObject]

convert_Series_to_Panel(obj0) ==
    LET obj == IF isinstance(obj0, "Series") THEN DataFrame_of_Series(obj0) ELSE obj0
    IN IF isinstance(obj, "DataFrame") THEN Return(list(<<obj>>))
       ELSE IF isinstance(obj, "ndarray")
       THEN IF Len(obj.shape) = 2 THEN Return(expand_dims(obj, {2}))
            ELSE IF Len(obj.shape) = 1 THEN Return(expand_dims(obj, {1, 2}))
            ELSE Raise("ValueError")
       ELSE Return(obj)

\* obj.index.droplevel(level=0): pandas refuses to drop the only level
droplevel(obj) ==
    IF obj.levels <= 1 THEN Raise("ValueError")
    ELSE Return([obj EXCEPT !.levels = @ - 1])

convert_Panel_to_Series(obj) ==
    IF isinstance(obj, "list")
    THEN IF Len(obj.items) = 1 THEN Return(obj.items[1]) ELSE Raise("ValueError")
    ELSE IF isinstance(obj, "DataFrame") THEN droplevel(obj)
    ELSE IF isinstance(obj, "ndarray")
    THEN IF Len(obj.shape) # 3 \/ obj.shape[1] # 1 THEN Raise("ValueError")
         ELSE Return(reshape(obj, <<obj.shape[2], obj.shape[3]>>))
    ELSE Return(obj)

\* the containers of a shape
Datas(shape) == [1..Size(shape) -> Cells]

\* the series tried: pd.DataFrame and np.ndarray of shape (n, d), pd.Series
\* and np.ndarray of shape (n,), and arrays of zeros with three axes
SeriesInputs ==
    (UNION {{pd_DataFrame(n, d, data, 1) : data \in Datas(<<n, d>>)} :
              n \in 1..MaxDim, d \in 1..MaxDim})
    \cup (UNION {{np_ndarray(<<n, d>>, data) : data \in Datas(<<n, d>>)} :
              n \in 1..MaxDim, d \in 1..MaxDim})
    \cup (UNION {{pd_Series(n, data) : data \in Datas(<<n>>)} : n \in 1..MaxDim})
    \cup (UNION {{np_ndarray(<<n>>, data) : data \in Datas(<<n>>)} : n \in 1..MaxDim})
    \cup {np_ndarray(<<a, b, c>>, [i \in 1..(a * b * c) |-> 0]) :
              a \in 1..MaxDim, b \in 1..MaxDim, c \in 1..MaxDim}

\* the panels tried on their own: a pd-multiindex frame of one instance, and
\* lists of no or two frames
PanelInputs ==
    {pd_DataFrame(n, 1, [i \in 1..n |-> 0], 2) : n \in 1..MaxDim}
    \cup {list(<< >>),
          list(<<pd_DataFrame(1, 1, <<0>>, 1), pd_DataFrame(1, 1, <<1>>, 1)>>)}

\* create_conditional_fixtures_and_names is not called
FixtureIdle ==
    /\ pc = "idle"
    /\ test_name = "t1"
    /\ fixture_vars = None
    /\ generator_dict = {}
    /\ fixture_sequence = None
    /\ order = << >>
    /\ fixture_param_str = << >>
    /\ src = << >>
    /\ frames = << >>
    /\ buf1 = << >>
    /\ buf2 = << >>
    /\ out_values = << >>
    /\ out_names = << >>
    /\ done1 = FALSE
    /\ done2 = FALSE
    /\ raised = << >>
    /\ calls = << >>
    /\ heap = InitHeap
    /\ nmut = 0

FixtureVars ==
    <<pc, test_name, fixture_vars, generator_dict, fixture_sequence, order,
      fixture_param_str, src, frames, buf1, buf2, out_values, out_names,
      done1, done2, raised, calls, heap, nmut>>

InitConvert ==
    /\ FixtureIdle
    /\ clf = NoClassifierCall
    /\ \/ \E obj \in SeriesInputs :
             conv = [pc |-> "series", obj |-> obj, panel |-> NoObject, back |-> NoObject]
       \/ \E obj \in PanelInputs :
             conv = [pc |-> "panel", obj |-> NoObject, panel |-> obj, back |-> NoObject]

\* panel = convert_Series_to_Panel(obj)
SeriesToPanel ==
    /\ conv.pc = "series"
    /\ LET r == convert_Series_to_Panel(conv.obj)
       IN conv' = IF r.raises = "none"
                  THEN [conv EXCEPT !.pc = "panel", !.panel = r.ret]
                  ELSE [conv EXCEPT !.pc = r.raises]
    /\ UNCHANGED <<FixtureVars, clf>>

\* back = convert_Panel_to_Series(panel)
PanelToSeries ==
    /\ conv.pc = "panel"
    /\ LET r == convert_Panel_to_Series(conv.panel)
       IN conv' = IF r.raises = "none"
                  THEN [conv EXCEPT !.pc = "done", !.back = r.ret]
                  ELSE [conv EXCEPT !.pc = r.raises]
    /\ UNCHANGED <<FixtureVars, clf>>

NextConvert == SeriesToPanel \/ PanelToSeries

SpecConvert == InitConvert /\ [][NextConvert]_vars

\* the conversion there and back has ended, from a series of shape (n, d)
RoundTripEnded ==
    /\ conv.pc \in {"done", "ValueError"}
    /\ conv.obj.type \in {"DataFrame", "ndarray"}
    /\ Len(conv.obj.shape) = 2

\* C12: for every pd.DataFrame or np.ndarray of shape (n, d), n, d >= 1,
\* convert_Panel_to_Series(convert_Series_to_Panel(obj)) raises no error and
\* returns a series equal to obj.
C12_RoundTrip == RoundTripEnded => (conv.pc = "done" /\ conv.back = conv.obj)

\* the part that holds: frames come back as they went in, and so do arrays
\* of one row and one column
FramesRoundTrip ==
    (RoundTripEnded /\ (conv.obj.type = "DataFrame" \/ conv.obj.shape = <<1, 1>>))
        => (conv.pc = "done" /\ conv.back = conv.obj)

\* an array of two rows does not come back
ArrayRejected ==
    /\ conv.pc = "ValueError"
    /\ conv.obj = np_ndarray(<<2, 1>>, <<0, 0>>)

\* an array of one row comes back transposed
ArrayTransposed ==
    /\ conv.pc = "done"
    /\ conv.obj = np_ndarray(<<1, 2>>, <<0, 1>>)
    /\ conv.back = np_ndarray(<<2, 1>>, <<0, 1>>)

(***************************************************************************)
(* sktime/contrib/set_classifier.py: set_classifier.  A name is a sequence *)
(* of characters, so that str.lower acts on each character; a classifier   *)
(* is its class name with the keyword arguments of its construction.       *)
(***************************************************************************)
\* how many characters of a literal change case in the names tried
MaxCaseFlips == 1

UpperCase == <<"A", "B", "C", "D", "E", "F", "G", "H", "I", "J", "K", "L", "M",
               "N", "O", "P", "Q", "R", "S", "T", "U", "V", "W", "X", "Y", "Z">>
LowerCase == <<"a", "b", "c", "d", "e", "f", "g", "h", "i", "j", "k", "l", "m",
               "n", "o", "p", "q", "r", "s", "t", "u", "v", "w", "x", "y", "z">>

\* str.lower, str.upper and str.swapcase of one character
lower_char(c) ==
    IF \E i \in 1..Len(UpperCase) : UpperCase[i] = c
    THEN LowerCase[CHOOSE i \in 1..Len(UpperCase) : UpperCase[i] = c] ELSE c
upper_char(c) ==
    IF \E i \in 1..Len(LowerCase) : LowerCase[i] = c
    THEN UpperCase[CHOOSE i \in 1..Len(LowerCase) : LowerCase[i] = c] ELSE c
swapcase_char(c) == IF lower_char(c) = c THEN upper_char(c) ELSE lower_char(c)

\* cls.lower(), cls.upper()
lower(s) == [i \in 1..Len(s) |-> lower_char(s[i])]
upper(s) == [i \in 1..Len(s) |-> upper_char(s[i])]

\* python values as keyword arguments
Bool(b) == [kind |-> "bool", n |-> IF b THEN 1 ELSE 0, var |-> ""]
StrVal(s) == [kind |-> "str", n |-> 0, var |-> s]
NoneVal == [kind |-> "none", n |-> 0, var |-> ""]
\* class(key=n), the estimator handed to a feature based classifier
Estimator(class, key, n) == [kind |-> class, n |-> n, var |-> key]

\* class(**kwargs)
Construct(class, kwargs) == [class |-> class, kwargs |-> kwargs]

\* the if/elif chain of lines 60-139, in order: the literals compared with
\* name and the classifier constructed
Branches(resample_id, train_file) ==
    <<
      [lits |-> <<<<"b", "o", "s", "s">>,
                   <<"b", "o", "s", "s", "e", "n", "s", "e", "m", "b", "l", "e">>>>,
       ret |-> Construct("BOSSEnsemble", <<<<"random_state", resample_id>>>>)],
      [lits |-> <<<<"c", "b", "o", "s", "s">>,
                   <<"c", "o", "n", "t", "r", "a", "c", "t", "a", "b", "l", "e", "b", "o", "s", "s">>>>,
       ret |-> Construct("ContractableBOSS", <<<<"random_state", resample_id>>>>)],
      [lits |-> <<<<"t", "d", "e">>,
                   <<"t", "e", "m", "p", "o", "r", "a", "l", "d", "i", "c", "t", "i", "o", "n", "a", "r", "y", "e", "n", "s", "e", "m", "b", "l", "e">>>>,
       ret |-> Construct("TemporalDictionaryEnsemble", <<<<"random_state", resample_id>>, <<"save_train_predictions", train_file>>>>)],
      [lits |-> <<<<"w", "e", "a", "s", "e", "l">>>>,
       ret |-> Construct("WEASEL", <<<<"random_state", resample_id>>>>)],
      [lits |-> <<<<"m", "u", "s", "e">>>>,
       ret |-> Construct("MUSE", <<<<"random_state", resample_id>>>>)],
      [lits |-> <<<<"p", "f">>,
                   <<"p", "r", "o", "x", "i", "m", "i", "t", "y", "f", "o", "r", "e", "s", "t">>>>,
       ret |-> Construct("ProximityForest", <<<<"random_state", resample_id>>>>)],
      [lits |-> <<<<"p", "t">>,
                   <<"p", "r", "o", "x", "i", "m", "i", "t", "y", "t", "r", "e", "e">>>>,
       ret |-> Construct("ProximityTree", <<<<"random_state", resample_id>>>>)],
      [lits |-> <<<<"p", "s">>,
                   <<"p", "r", "o", "x", "i", "m", "i", "t", "y", "S", "t", "u", "m", "p">>>>,
       ret |-> Construct("ProximityStump", <<<<"random_state", resample_id>>>>)],
      [lits |-> <<<<"d", "t", "w", "c", "v">>,
                   <<"k", "n", "e", "i", "g", "h", "b", "o", "r", "s", "t", "i", "m", "e", "s", "e", "r", "i", "e", "s", "c", "l", "a", "s", "s", "i", "f", "i", "e", "r">>>>,
       ret |-> Construct("KNeighborsTimeSeriesClassifier", <<<<"distance", StrVal("dtwcv")>>>>)],
      [lits |-> <<<<"d", "t", "w">>,
                   <<"1", "n", "n", "-", "d", "t", "w">>>>,
       ret |-> Construct("KNeighborsTimeSeriesClassifier", <<<<"distance", StrVal("dtw")>>>>)],
      [lits |-> <<<<"m", "s", "m">>,
                   <<"1", "n", "n", "-", "m", "s", "m">>>>,
       ret |-> Construct("KNeighborsTimeSeriesClassifier", <<<<"distance", StrVal("msm")>>>>)],
      [lits |-> <<<<"e", "e">>,
                   <<"e", "l", "a", "s", "t", "i", "c", "e", "n", "s", "e", "m", "b", "l", "e">>>>,
       ret |-> Construct("ElasticEnsemble", <<<<"random_state", resample_id>>>>)],
      [lits |-> <<<<"s", "h", "a", "p", "e", "d", "t", "w">>>>,
       ret |-> Construct("ShapeDTW", <<>>)],
      [lits |-> <<<<"c", "a", "t", "c", "h", "2", "2">>>>,
       ret |-> Construct("Catch22Classifier", <<<<"random_state", resample_id>>, <<"estimator", Estimator("RandomForestClassifier", "n_estimators", 500)>>>>)],
      [lits |-> <<<<"m", "a", "t", "r", "i", "x", "p", "r", "o", "f", "i", "l", "e">>>>,
       ret |-> Construct("MatrixProfileClassifier", <<<<"random_state", resample_id>>>>)],
      [lits |-> <<<<"s", "i", "g", "n", "a", "t", "u", "r", "e">>>>,
       ret |-> Construct("SignatureClassifier", <<<<"random_state", resample_id>>, <<"classifier", Estimator("RandomForestClassifier", "n_estimators", 500)>>>>)],
      [lits |-> <<<<"t", "s", "f", "r", "e", "s", "h">>>>,
       ret |-> Construct("TSFreshClassifier", <<<<"random_state", resample_id>>, <<"estimator", Estimator("RandomForestClassifier", "n_estimators", 500)>>>>)],
      [lits |-> <<<<"t", "s", "f", "r", "e", "s", "h", "-", "r">>>>,
       ret |-> Construct("TSFreshClassifier", <<<<"random_state", resample_id>>, <<"estimator", Estimator("RandomForestClassifier", "n_estimators", 500)>>, <<"relevant_feature_extractor", Bool(TRUE)>>>>)],
      [lits |-> <<<<"h", "c", "1">>,
                   <<"h", "i", "v", "e", "c", "o", "t", "e", "v", "1">>>>,
       ret |-> Construct("HIVECOTEV1", <<<<"random_state", resample_id>>>>)],
      [lits |-> <<<<"h", "c", "2">>,
                   <<"h", "i", "v", "e", "c", "o", "t", "e", "v", "2">>>>,
       ret |-> Construct("HIVECOTEV2", <<<<"random_state", resample_id>>>>)],
      [lits |-> <<<<"r", "i", "s", "e">>,
                   <<"r", "a", "n", "d", "o", "m", "i", "n", "t", "e", "r", "v", "a", "l", "s", "p", "e", "c", "t", "r", "a", "l", "f", "o", "r", "e", "s", "t">>>>,
       ret |-> Construct("RandomIntervalSpectralForest", <<<<"random_state", resample_id>>, <<"n_estimators", IntVal(500)>>>>)],
      [lits |-> <<<<"t", "s", "f">>,
                   <<"t", "i", "m", "e", "s", "e", "r", "i", "e", "s", "f", "o", "r", "e", "s", "t", "c", "l", "a", "s", "s", "i", "f", "i", "e", "r">>>>,
       ret |-> Construct("TimeSeriesForestClassifier", <<<<"random_state", resample_id>>, <<"n_estimators", IntVal(500)>>>>)],
      [lits |-> <<<<"c", "i", "f">>,
                   <<"c", "a", "n", "o", "n", "i", "c", "a", "l", "i", "n", "t", "e", "r", "v", "a", "l", "f", "o", "r", "e", "s", "t">>>>,
       ret |-> Construct("CanonicalIntervalForest", <<<<"random_state", resample_id>>, <<"n_estimators", IntVal(500)>>>>)],
      [lits |-> <<<<"s", "t", "s", "f">>,
                   <<"s", "u", "p", "e", "r", "v", "i", "s", "e", "d", "t", "i", "m", "e", "s", "e", "r", "i", "e", "s", "f", "o", "r", "e", "s", "t">>>>,
       ret |-> Construct("SupervisedTimeSeriesForest", <<<<"random_state", resample_id>>, <<"n_estimators", IntVal(500)>>>>)],
      [lits |-> <<<<"d", "r", "c", "i", "f">>>>,
       ret |-> Construct("DrCIF", <<<<"random_state", resample_id>>, <<"n_estimators", IntVal(500)>>, <<"save_transformed_data", train_file>>>>)],
      [lits |-> <<<<"r", "o", "c", "k", "e", "t">>>>,
       ret |-> Construct("ROCKETClassifier", <<<<"random_state", resample_id>>>>)],
      [lits |-> <<<<"a", "r", "s", "e", "n", "a", "l">>>>,
       ret |-> Construct("Arsenal", <<<<"random_state", resample_id>>, <<"save_transformed_data", train_file>>>>)],
      [lits |-> <<<<"s", "t", "c">>,
                   <<"s", "h", "a", "p", "e", "l", "e", "t", "t", "r", "a", "n", "s", "f", "o", "r", "m", "c", "l", "a", "s", "s", "i", "f", "i", "e", "r">>>>,
       ret |-> Construct("ShapeletTransformClassifier", <<<<"random_state", resample_id>>, <<"save_transformed_data", train_file>>>>)]
    >>

\* the first branch of the chain, from the i-th on, one of whose literals
\* equals name; 0 when the chain falls through to its else
RECURSIVE Matching(_, _, _)
Matching(branches, name, i) ==
    IF i > Len(branches) THEN 0
    ELSE IF \E k \in 1..Len(branches[i].lits) : name = branches[i].lits[k] THEN i
    ELSE Matching(branches, name, i + 1)

set_classifier(cls, resample_id, train_file) ==
    LET name == lower(cls)
        branches == Branches(resample_id, train_file)
        i == Matching(branches, name, 1)
    IN IF i = 0 THEN [raises |-> "Exception", msg |-> "UNKNOWN CLASSIFIER"]
       ELSE [raises |-> "none", ret |-> branches[i].ret]

\* every literal name is compared against
Literals ==
    LET b == Branches(NoneVal, Bool(FALSE))
    IN UNION {Range(b[i].lits) : i \in 1..Len(b)}

\* the subsets of S of at most k elements
RECURSIVE SubsetsUpTo(_, _)
SubsetsUpTo(S, k) ==
    IF k = 0 THEN {{}}
    ELSE LET prev == SubsetsUpTo(S, k - 1)
         IN prev \cup {P \cup {x} : P \in prev, x \in S}

\* lit with the characters at the positions P in the other case
Flip(lit, P) == [i \in 1..Len(lit) |-> IF i \in P THEN swapcase_char(lit[i]) ELSE lit[i]]

\* the names tried: each literal as written, with up to MaxCaseFlips
\* characters in the other case, all in lower case and all in upper case;
\* and names that are no literal in any case
Names ==
    (UNION {{Flip(lit, P) : P \in SubsetsUpTo(1..Len(lit), MaxCaseFlips)} \cup
            {lower(lit), upper(lit)} : lit \in Literals})
    \cup {<< >>, <<"b", "o", "s">>, <<"b", "o", "s", "s", " ">>, <<"k", "n", "n">>}

ResampleIds == {NoneVal, IntVal(0)}

InitClassifier ==
    /\ FixtureIdle
    /\ conv = NoConversion
    /\ \E cls \in Names, resample_id \in ResampleIds, train_file \in BOOLEAN :
          clf = [pc |-> "call", cls |-> cls, resample_id |-> resample_id,
                 train_file |-> Bool(train_file)]

\* set_classifier(cls, resample_id, train_file) returns or raises
SetClassifier ==
    /\ clf.pc = "call"
    /\ clf' = [pc |-> "ended", cls |-> clf.cls, resample_id |-> clf.resample_id,
               train_file |-> clf.train_file,
               res |-> set_classifier(clf.cls, clf.resample_id, clf.train_file)]
    /\ UNCHANGED <<FixtureVars, conv>>

NextClassifier == SetClassifier

SpecClassifier == InitClassifier /\ [][NextClassifier]_vars

\* a and b are the same string up to the case of their letters
EqualUpToCase(a, b) ==
    /\ Len(a) = Len(b)
    /\ \A i \in 1..Len(a) : lower_char(a[i]) = lower_char(b[i])

\* the classifier the chain associates with the literal lit
Associated(lit, resample_id, train_file) ==
    LET b == Branches(resample_id, train_file)
    IN b[CHOOSE i \in 1..Len(b) : lit \in Range(b[i].lits)].ret

\* the call returned the classifier associated with the literal lit
ReturnsFor(lit) ==
    /\ clf.res.raises = "none"
    /\ clf.res.ret = Associated(lit, clf.resample_id, clf.train_file)

\* C13: the lookup is case-insensitive and complete: a name equal, up to
\* case, to a literal the code compares against returns the classifier
\* associated with that literal, and Exception("UNKNOWN CLASSIFIER") is raised
\* only for names equal to no literal up to case.
C13_CaseInsensitiveLookup ==
    clf.pc = "ended" =>
        /\ \A lit \in Literals : EqualUpToCase(clf.cls, lit) => ReturnsFor(lit)
        /\ clf.res.raises = "Exception" =>
              \A lit \in Literals : ~ EqualUpToCase(clf.cls, lit)

\* the part that holds: the literals written in lower case are found in
\* any case, and a name that is no literal in any case raises
LowerCaseLiteralsFound ==
    clf.pc = "ended" =>
        /\ \A lit \in Literals :
              (lit = lower(lit) /\ EqualUpToCase(clf.cls, lit)) => ReturnsFor(lit)
        /\ (\A lit \in Literals : ~ EqualUpToCase(clf.cls, lit)) =>
              (clf.res.raises = "Exception" /\ clf.res.msg = "UNKNOWN CLASSIFIER")

\* set_classifier("proximityStump") raises
ProximityStumpUnknown ==
    /\ clf.pc = "ended"
    /\ clf.cls = <<"p", "r", "o", "x", "i", "m", "i", "t", "y", "S", "t", "u", "m", "p">>
    /\ clf.res.raises = "Exception"

\* set_classifier("PS") returns a ProximityStump
ProximityStumpByShortName ==
    /\ clf.pc = "ended"
    /\ clf.cls = <<"P", "S">>
    /\ clf.res.raises = "none"
    /\ clf.res.ret.class = "ProximityStump"

====
